---------------------------- MODULE Spec2Model ----------------------------
(***************************************************************************)
(* Model of the PySpark ETL job template                                   *)
(*   src/jobs/domain/system/etl_job_base.py            (driver, CLI)       *)
(*   src/jobs/domain/system/etl_job_base_functions.py  (functions only)    *)
(*                                                                         *)
(* Text is a sequence of one-character strings, so that joining, trimming  *)
(* and number parsing are computed.  A cell of a DataFrame is <<>> (SQL    *)
(* NULL) or <<v>>; a DataFrame is its columns (names and types) and a     *)
(* sequence of rows, each row a sequence of cells in column order.         *)
(*                                                                         *)
(* Spark semantics used are those of Spark 3.x with ANSI mode off.  Where  *)
(* the 3.x releases differ (a NULL in a CSV file), the release in use is   *)
(* part of the state.  All numbers of the model stay  *)
(* far below 2^31, hence below the 64-bit range of a Spark bigint and the  *)
(* 2^53 exact-integer range of a double: no product of the model wraps or  *)
(* rounds.                                                                 *)
(*                                                                         *)
(* The command line is parsed as argparse of CPython 3.11 parses it        *)
(* (abbreviated options, option=value, -h, SystemExit on an error).        *)
(***************************************************************************)
EXTENDS Integers, Sequences, FiniteSets, TLC

VARIABLES
    args,              \* argv handed to main (sys.argv[1:])
    pc,                \* statement of main/job about to run
    job_name,          \* main: local job_name
    steps_per_floor,   \* main/job: local steps_per_floor
    spark,             \* engine session: "none" | "running" | "stopped"
    log,               \* messages logged by this process, in order
    data,              \* job: local data              (<<>> while unset)
    data_transformed,  \* job: local data_transformed  (<<>> while unset)
    input_file,        \* parquet dataset at .../test_data/employees
    output_loc,        \* files at .../test_integration/output_employees
    stages,            \* history: stages started in this run, in order
    raised,            \* history: stage whose failure ended this run
    stops,             \* history: number of spark.stop() calls in this run
    output_at_start,   \* history: output_loc when this run started
    loads,             \* history: completed load_data calls
    runs,              \* number of the current process run
    report_file,       \* parquet dataset at .../test_data/employees_report
    null_quoted,       \* engine: the CSV writer writes NULL as "" (Spark
                       \* up to 3.2.0) and not as nothing (later releases)
    exit_status        \* <<code>> once SystemExit(code) has left main

vars == <<args, pc, job_name, steps_per_floor, spark, log, data,
          data_transformed, input_file, output_loc, stages, raised, stops,
          output_at_start, loads, runs, report_file, null_quoted,
          exit_status>>

(***************************************************************************)
(* Bounds of the model.                                                    *)
(***************************************************************************)
\* rows of a dataset handed to transform_data directly
MaxRows == 3
\* rows of a small stored input dataset of the driver
MaxInputRows == 1
\* process runs of the driver against the same files
MaxRuns == 2

(***************************************************************************)
(* Text.                                                                   *)
(***************************************************************************)
Digits == <<"0", "1", "2", "3", "4", "5", "6", "7", "8", "9">>

IsDigit(c) == \E d \in 1..10 : Digits[d] = c

DigitVal(c) == (CHOOSE d \in 1..10 : Digits[d] = c) - 1

RECURSIVE TrimLeft(_)
TrimLeft(s) ==
    IF s # <<>> /\ Head(s) = " " THEN TrimLeft(Tail(s)) ELSE s

RECURSIVE TrimRight(_)
TrimRight(s) ==
    IF s # <<>> /\ s[Len(s)] = " "
    THEN TrimRight(SubSeq(s, 1, Len(s) - 1))
    ELSE s

Trim(s) == TrimRight(TrimLeft(s))

RECURSIVE ParseNat(_)
ParseNat(s) ==
    IF s = <<>> THEN 0
    ELSE 10 * ParseNat(SubSeq(s, 1, Len(s) - 1)) + DigitVal(s[Len(s)])

RECURSIVE NatToText(_)
NatToText(n) ==
    IF n < 10 THEN <<Digits[n + 1]>>
    ELSE NatToText(n \div 10) \o <<Digits[(n % 10) + 1]>>

(***************************************************************************)
(* Python values that reach transform_data as steps_per_floor_: an int     *)
(* (config['steps_per_floor'], the unit tests), a str (argparse type=str)  *)
(* or None (flag not given).  One record shape for all three.              *)
(***************************************************************************)
PyInt(n) == [kind |-> "int", int |-> n, str |-> <<>>]
PyStr(s) == [kind |-> "str", int |-> 0, str |-> s]
PyNone == [kind |-> "None", int |-> 0, str |-> <<>>]

(***************************************************************************)
(* Column names and types.                                                 *)
(***************************************************************************)
C_id == <<"i", "d">>
C_first_name == <<"f", "i", "r", "s", "t", "_", "n", "a", "m", "e">>
C_second_name == <<"s", "e", "c", "o", "n", "d", "_", "n", "a", "m", "e">>
C_floor == <<"f", "l", "o", "o", "r">>
C_name == <<"n", "a", "m", "e">>
C_steps_to_desk ==
    <<"s", "t", "e", "p", "s", "_", "t", "o", "_", "d", "e", "s", "k">>

Field(n, t) == [name |-> n, type |-> t]

NULL == <<>>
Val(v) == <<v>>
IsNull(c) == c = <<>>

DataFrame(schema, rows) == [columns |-> schema, rows |-> rows]

ColumnNames(df) == [i \in 1..Len(df.columns) |-> df.columns[i].name]

HasColumn(df, n) == \E i \in 1..Len(df.columns) : df.columns[i].name = n

ColumnIndex(df, n) == CHOOSE i \in 1..Len(df.columns) : df.columns[i].name = n

\* col(n) evaluated on one row of df
col(df, row, n) == row[ColumnIndex(df, n)]

ColumnType(df, n) == df.columns[ColumnIndex(df, n)].type


(***************************************************************************)
(* Column expressions of pyspark.sql.functions used by transform_data.     *)
(***************************************************************************)
RECURSIVE Join(_, _)
Join(sep, texts) ==
    IF texts = <<>> THEN <<>>
    ELSE IF Len(texts) = 1 THEN texts[1]
    ELSE texts[1] \o sep \o Join(sep, Tail(texts))

\* Variant: concat() semantics without the separator.
concat_ws_no_separator(sep, cells) ==
    LET present == SelectSeq(cells, LAMBDA c : ~IsNull(c))
    IN  Val(Join(<<>>, [i \in 1..Len(present) |-> present[i][1]]))

\* concat_ws(sep, c1, c2, ...): the non-NULL inputs joined by sep; a NULL
\* input is skipped together with its separator; the result is never NULL.
concat_ws(sep, cells) ==
    LET present == SelectSeq(cells, LAMBDA c : ~IsNull(c))
    IN  Val(Join(sep, [i \in 1..Len(present) |-> present[i][1]]))

\* lit(v): a literal column; a Python int gives an int literal, a str a
\* string literal, None a NULL literal.
lit(v) ==
    CASE v.kind = "int" -> [type |-> "int", int |-> v.int, str |-> <<>>]
      [] v.kind = "str" -> [type |-> "string", int |-> 0, str |-> v.str]
      [] OTHER -> [type |-> "null", int |-> 0, str |-> <<>>]

\* CAST(string AS double), ANSI off: surrounding blanks are dropped, a
\* decimal numeral gives its value, text that is no number gives NULL.
\* (Modelled for text made of digits, blanks and lower-case a, b, c.)
CastStringToDouble(s) ==
    LET t == Trim(s)
    IN  IF t # <<>> /\ \A i \in 1..Len(t) : IsDigit(t[i])
        THEN Val(ParseNat(t))
        ELSE NULL

\* Type of bigint_column * literal after Spark's implicit type coercion:
\* a string operand of an arithmetic operator is cast to double and the
\* other operand widened to double; an int or NULL literal is cast to
\* bigint.
MultiplyType(left_type, l) ==
    IF l.type = "string" THEN "double" ELSE left_type

\* Value of the literal as an operand of the multiplication.
MultiplyOperand(l) ==
    CASE l.type = "int" -> Val(l.int)
      [] l.type = "string" -> CastStringToDouble(l.str)
      [] OTHER -> NULL

\* cell * literal: NULL when either side is NULL.
Multiply(cell, l) ==
    LET r == MultiplyOperand(l)
    IN  IF IsNull(cell) \/ IsNull(r) THEN NULL ELSE Val(cell[1] * r[1])

(***************************************************************************)
(* transform_data(df, steps_per_floor_)                                    *)
(***************************************************************************)
\* select() is analysed eagerly: every referenced column must resolve,
\* otherwise an AnalysisException is raised by transform_data itself.
Resolves(df) ==
    /\ HasColumn(df, C_id)
    /\ HasColumn(df, C_first_name)
    /\ HasColumn(df, C_second_name)
    /\ HasColumn(df, C_floor)

TransformSchema(df, steps_per_floor_) ==
    << Field(C_id, ColumnType(df, C_id)),
       Field(C_name, "string"),
       Field(C_steps_to_desk,
             MultiplyType(ColumnType(df, C_floor), lit(steps_per_floor_))) >>

\* Variant: the first selected column reads floor instead of id.
TransformRow_wrong_id(df, row, steps_per_floor_) ==
    << col(df, row, C_floor),
       concat_ws(<<" ">>, << col(df, row, C_first_name),
                             col(df, row, C_second_name) >>),
       Multiply(col(df, row, C_floor), lit(steps_per_floor_)) >>

TransformRow(df, row, steps_per_floor_) ==
    << col(df, row, C_id),
       concat_ws(<<" ">>, << col(df, row, C_first_name),
                             col(df, row, C_second_name) >>),
       Multiply(col(df, row, C_floor), lit(steps_per_floor_)) >>

\* Variant: rows without a floor are dropped before the select.
transform_data_dropping(df, steps_per_floor_) ==
    LET kept == SelectSeq(df.rows, LAMBDA r : ~IsNull(col(df, r, C_floor)))
    IN  DataFrame(TransformSchema(df, steps_per_floor_),
                  [i \in 1..Len(kept) |->
                      TransformRow(df, kept[i], steps_per_floor_)])

transform_data(df, steps_per_floor_) ==
    DataFrame(TransformSchema(df, steps_per_floor_),
              [i \in 1..Len(df.rows) |->
                  TransformRow(df, df.rows[i], steps_per_floor_)])

\* Variant: the mapping is applied in place, so that the caller's dataset
\* holds the report columns after the call.
df_after_select_in_place(df, steps_per_floor_) ==
    DataFrame(TransformSchema(df, steps_per_floor_),
              [i \in 1..Len(df.rows) |->
                  TransformRow(df, df.rows[i], steps_per_floor_)])

\* The caller's dataset df once transform_data has returned: select builds
\* a new DataFrame (bound to df_transformed) and assigns nothing to df.
df_after_select(df, steps_per_floor_) == df

(***************************************************************************)
(* load_data(df): df.coalesce(1).write.csv(path, mode='overwrite',         *)
(* header=True).  A CSV file is a sequence of lines, a line a sequence of  *)
(* text fields (the samples hold no delimiter, quote or line break, so the  *)
(* only quoted field is the empty one).                                    *)
(***************************************************************************)
\* emptyValue of the CSV writer: an empty string is written as the two
\* characters "".
EmptyValue == <<"\"", "\"">>

\* One value as CSV text, with the writer's defaults:
\*  - ignoreLeadingWhiteSpace and ignoreTrailingWhiteSpace are true when
\*    writing, so blanks around a string are dropped;
\*  - a string of which nothing is left is written as emptyValue;
\*  - NULL is written as nullValue, the empty text; Spark up to 3.2.0
\*    hands nullValue to the writer as a string, which then comes out as
\*    emptyValue;
\*  - a bigint is its decimal numeral; a double with an integral value
\*    below 10^7 is that numeral followed by ".0".
CsvText(type, cell) ==
    IF IsNull(cell) THEN (IF null_quoted THEN EmptyValue ELSE <<>>)
    ELSE CASE type = "string" ->
                IF Trim(cell[1]) = <<>> THEN EmptyValue ELSE Trim(cell[1])
           [] type = "double" -> NatToText(cell[1]) \o <<".", "0">>
           [] OTHER -> NatToText(cell[1])

CsvLine(df, row) ==
    [j \in 1..Len(df.columns) |-> CsvText(df.columns[j].type, row[j])]

\* Variant: header=False.
CsvFile_no_header(df) ==
    [i \in 1..Len(df.rows) |-> CsvLine(df, df.rows[i])]

\* header=True: the first line of the part file is the column names
\* (Spark 3 writes it for a dataset without rows as well).
CsvFile(df) ==
    <<ColumnNames(df)>> \o [i \in 1..Len(df.rows) |-> CsvLine(df, df.rows[i])]

\* coalesce(1): the dataset is one partition, written as one part file
\* holding the rows in dataset order.
PartFiles(df) == <<CsvFile(df)>>

\* Variant: mode='append'.
load_data_append(existing, df) == existing \o PartFiles(df)

\* mode='overwrite': whatever the location held is deleted, then the part
\* files are written.
load_data(existing, df) == PartFiles(df)


(***************************************************************************)
(* Datasets.  The employees of create_test_data, and rows with NULLs and   *)
(* with blanks around a name.                                              *)
(***************************************************************************)
T_Dan == <<"D", "a", "n">>
T_Germain == <<"G", "e", "r", "m", "a", "i", "n">>
T_Sommerville == <<"S", "o", "m", "m", "e", "r", "v", "i", "l", "l", "e">>
T_Alex == <<"A", "l", "e", "x">>
T_Ioannides == <<"I", "o", "a", "n", "n", "i", "d", "e", "s">>
T_Ken == <<"K", "e", "n">>
T_Lai == <<"L", "a", "i">>
T_Stu == <<"S", "t", "u">>
T_White == <<"W", "h", "i", "t", "e">>
T_Mark == <<"M", "a", "r", "k">>
T_Sweeting == <<"S", "w", "e", "e", "t", "i", "n", "g">>
T_Phil == <<"P", "h", "i", "l">>
T_Bird == <<"B", "i", "r", "d">>
T_Kim == <<"K", "i", "m">>
T_Suter == <<"S", "u", "t", "e", "r">>
T_Stu_lead == <<" ", "S", "t", "u">>
T_White_trail == <<"W", "h", "i", "t", "e", " ">>

Employee(id, first_name, second_name, floor) ==
    <<Val(id), Val(first_name), Val(second_name), Val(floor)>>

\* spark.createDataFrame(local_records): Python ints become bigint.
EmployeeColumns ==
    << Field(C_id, "long"), Field(C_first_name, "string"),
       Field(C_second_name, "string"), Field(C_floor, "long") >>

local_records ==
    << Employee(1, T_Dan, T_Germain, 1),
       Employee(2, T_Dan, T_Sommerville, 1),
       Employee(3, T_Alex, T_Ioannides, 2),
       Employee(4, T_Ken, T_Lai, 2),
       Employee(5, T_Stu, T_White, 3),
       Employee(6, T_Mark, T_Sweeting, 3),
       Employee(7, T_Phil, T_Bird, 4),
       Employee(8, T_Kim, T_Suter, 4) >>

EmployeesDF == DataFrame(EmployeeColumns, local_records)

\* Rows the small datasets are built from: two employees of local_records
\* and four rows with NULL cells or blanks around a name.
SampleRows ==
    { local_records[1],
      local_records[3],
      <<Val(9), NULL, Val(T_Lai), Val(2)>>,
      <<Val(10), Val(T_Stu_lead), Val(T_White_trail), Val(3)>>,
      <<NULL, Val(T_Kim), NULL, NULL>>,
      <<Val(11), NULL, NULL, Val(4)>> }

SmallDatasets ==
    { DataFrame(EmployeeColumns, rows) :
        rows \in UNION { [1..n -> SampleRows] : n \in 0..MaxRows } }

\* The same columns in another order (Row(**kwargs) of PySpark 2.x sorts
\* the field names) and with a column the transform does not use.
ReorderedDF ==
    DataFrame(<< Field(<<"d", "e", "p", "t">>, "string"), Field(C_first_name, "string"),
                 Field(C_floor, "long"), Field(C_id, "long"),
                 Field(C_second_name, "string") >>,
              << <<Val(T_Bird), Val(T_Ken), Val(2), Val(4), Val(T_Lai)>>,
                 <<NULL, Val(T_Mark), Val(3), Val(6), Val(T_Sweeting)>> >>)

\* A dataset without the floor column.
NoFloorDF ==
    DataFrame(<< Field(C_id, "long"), Field(C_first_name, "string"),
                 Field(C_second_name, "string") >>,
              << <<Val(1), Val(T_Dan), Val(T_Germain)>> >>)

Datasets == SmallDatasets \cup {EmployeesDF, ReorderedDF, NoFloorDF}

\* Values of steps_per_floor_: what argparse hands over (a str, or None
\* when the flag is absent) and what a config mapping or a test hands
\* over (an int).
T_21 == <<"2", "1">>
T_3 == <<"3">>
T_21_blank == <<" ", "2", "1">>
T_abc == <<"a", "b", "c">>

StepsFromCli == {PyStr(T_21), PyStr(T_3), PyStr(T_21_blank), PyStr(T_abc), PyNone}

StepsFromConfig == {PyInt(21), PyInt(3), PyInt(0)}

(***************************************************************************)
(* SpecTransform: transform_data called directly (as the unit tests and    *)
(* create_test_data call it) on every dataset and steps_per_floor_ value.  *)
(***************************************************************************)
None == <<>>

InitTransform ==
    /\ pc = "call"
    /\ data \in {<<d>> : d \in Datasets}
    /\ steps_per_floor \in StepsFromCli \cup StepsFromConfig
    /\ data_transformed = None
    /\ args = <<>>
    /\ job_name = PyNone
    /\ spark = "running"
    /\ log = <<>>
    /\ input_file = None
    /\ output_loc = <<>>
    /\ stages = <<>>
    /\ raised = "none"
    /\ stops = 0
    /\ output_at_start = <<>>
    /\ loads = {}
    /\ runs = 1
    /\ report_file = None
    /\ null_quoted = FALSE
    /\ exit_status = None

\* df_transformed = df.select(...); return df_transformed
CallTransform ==
    /\ pc = "call"
    /\ Resolves(data[1])
    /\ data_transformed' = <<transform_data(data[1], steps_per_floor)>>
    /\ data' = <<df_after_select(data[1], steps_per_floor)>>
    /\ pc' = "returned"
    /\ UNCHANGED <<args, job_name, steps_per_floor, spark, log,
                   input_file, output_loc, stages, raised, stops,
                   output_at_start, loads, runs, report_file, null_quoted,
                   exit_status>>

\* select() of a column the dataset lacks raises AnalysisException.
CallTransformRaises ==
    /\ pc = "call"
    /\ ~Resolves(data[1])
    /\ pc' = "raised"
    /\ UNCHANGED <<args, job_name, steps_per_floor, spark, log, data,
                   data_transformed, input_file, output_loc, stages, raised,
                   stops, output_at_start, loads, runs, report_file, null_quoted,
                   exit_status>>

NextTransform == CallTransform \/ CallTransformRaises

SpecTransform == InitTransform /\ [][NextTransform]_vars


(***************************************************************************)
(* The driver: main(args) and job(spark, log, steps_per_floor).            *)
(***************************************************************************)
F_jbn == <<"-", "j", "b", "n">>
F_job_name_arg == <<"-", "-", "j", "o", "b", "_", "n", "a", "m", "e", "_", "a", "r", "g">>
F_spf == <<"-", "s", "p", "f">>
F_steps_per_floor == <<"-", "-", "s", "t", "e", "p", "s", "_", "p", "e", "r", "_", "f", "l", "o", "o", "r">>

F_h == <<"-", "h">>
F_help == <<"-", "-", "h", "e", "l", "p">>
F_steps == <<"-", "-", "s", "t", "e", "p", "s">>
T_etl == <<"e", "t", "l">>
F_jbn_etl == F_jbn \o <<"=">> \o T_etl

\* The option strings of the parser built at 190-197: -h/--help, which
\* ArgumentParser adds itself, and the two pairs of add_argument.
OptionStrings ==
    {F_h, F_help, F_jbn, F_job_name_arg, F_spf, F_steps_per_floor}

\* The action an option string belongs to, named by its dest.
Dest(option_string) ==
    CASE option_string \in {F_h, F_help} -> "help"
      [] option_string \in {F_jbn, F_job_name_arg} -> "job_name_arg"
      [] OTHER -> "steps_per_floor"

startswith(s, prefix) ==
    Len(prefix) <= Len(s) /\ SubSeq(s, 1, Len(prefix)) = prefix

Contains(s, c) == \E i \in 1..Len(s) : s[i] = c

\* s.split(c, 1) of a text that contains c: the parts around the first c
SplitHead(s, c) ==
    SubSeq(s, 1, (CHOOSE i \in 1..Len(s) :
                     s[i] = c /\ \A j \in 1..(i - 1) : s[j] # c) - 1)

SplitTail(s, c) ==
    SubSeq(s, (CHOOSE i \in 1..Len(s) :
                  s[i] = c /\ \A j \in 1..(i - 1) : s[j] # c) + 1, Len(s))

AllDigits(s) == \A i \in 1..Len(s) : IsDigit(s[i])

\* argparse's pattern of a negative number, '^-\d+$|^-\d*\.\d+$' ($ also
\* matches before one final newline)
negative_number_matcher(s) ==
    LET t == IF s # <<>> /\ s[Len(s)] = "\n" THEN SubSeq(s, 1, Len(s) - 1)
             ELSE s
        r == SubSeq(t, 2, Len(t))
    IN  /\ Len(t) >= 2
        /\ t[1] = "-"
        /\ \/ AllDigits(r)
           \/ \E k \in 1..(Len(r) - 1) :
                 /\ r[k] = "."
                 /\ AllDigits(SubSeq(r, 1, k - 1))
                 /\ AllDigits(SubSeq(r, k + 1, Len(r)))

\* One reading of an argument: how it counts in the pattern of the
\* argument list ("O" option, "A" value), the action it selects ("none"
\* for an option the parser does not know), the option string matched and
\* the value attached to the argument itself (<<>> when there is none).
Reading(pattern, action, option_string, explicit_arg) ==
    [pattern |-> pattern, action |-> action,
     option_string |-> option_string, explicit_arg |-> explicit_arg]

Positional == Reading("A", "none", <<>>, None)

\* The option strings an argument of two or more characters abbreviates.
\* After two dashes: every option string that starts with the part before
\* '='.  After one dash: the option string equal to the first two
\* characters, with the rest attached as value, and every option string
\* that starts with the whole argument.
get_option_tuples(arg_string) ==
    IF arg_string[2] = "-"
    THEN LET option_prefix == IF Contains(arg_string, "=")
                              THEN SplitHead(arg_string, "=")
                              ELSE arg_string
             explicit_arg == IF Contains(arg_string, "=")
                             THEN <<SplitTail(arg_string, "=")>>
                             ELSE None
         IN  { Reading("O", Dest(o), o, explicit_arg) :
                 o \in {x \in OptionStrings : startswith(x, option_prefix)} }
    ELSE LET short_option_prefix == SubSeq(arg_string, 1, 2)
             short_explicit_arg == SubSeq(arg_string, 3, Len(arg_string))
         IN  { Reading("O", Dest(o), o, <<short_explicit_arg>>) :
                 o \in {x \in OptionStrings : x = short_option_prefix} }
             \cup
             { Reading("O", Dest(o), o, None) :
                 o \in {x \in OptionStrings :
                          /\ x # short_option_prefix
                          /\ startswith(x, arg_string)} }

\* How the parser reads one argument; pattern "error" when it abbreviates
\* more than one option.
parse_optional(arg_string) ==
    IF arg_string = <<>> THEN Positional
    ELSE IF arg_string[1] # "-" THEN Positional
    ELSE IF arg_string \in OptionStrings
    THEN Reading("O", Dest(arg_string), arg_string, None)
    ELSE IF Len(arg_string) = 1 THEN Positional
    ELSE IF /\ Contains(arg_string, "=")
            /\ SplitHead(arg_string, "=") \in OptionStrings
    THEN Reading("O", Dest(SplitHead(arg_string, "=")),
                 SplitHead(arg_string, "="), <<SplitTail(arg_string, "=")>>)
    ELSE LET option_tuples == get_option_tuples(arg_string)
         IN  IF Cardinality(option_tuples) > 1
             THEN Reading("error", "none", <<>>, None)
             ELSE IF Cardinality(option_tuples) = 1
             THEN CHOOSE t \in option_tuples : TRUE
             ELSE IF negative_number_matcher(arg_string) THEN Positional
             ELSE IF Contains(arg_string, " ") THEN Positional
             ELSE Reading("O", "none", arg_string, None)

DashDash == <<"-", "-">>

\* Place of the first '--' in the list, one past its end when there is none
FirstDashDash(arg_strings) ==
    IF \E i \in 1..Len(arg_strings) : arg_strings[i] = DashDash
    THEN CHOOSE i \in 1..Len(arg_strings) :
            /\ arg_strings[i] = DashDash
            /\ \A j \in 1..(i - 1) : arg_strings[j] # DashDash
    ELSE Len(arg_strings) + 1

\* The pattern of the argument list: '-' for the first '--', "A" for all
\* that follows it, the reading's pattern for what precedes it.
ArgStringsPattern(arg_strings) ==
    [i \in 1..Len(arg_strings) |->
        IF i > FirstDashDash(arg_strings) THEN "A"
        ELSE IF i = FirstDashDash(arg_strings) THEN "-"
        ELSE parse_optional(arg_strings[i]).pattern]

\* What parse_args comes to: the namespace, or the code of the SystemExit
\* raised by parser.error (2) or by the help action (0).
Parsed(namespace) ==
    [exit |-> None, job_name_arg |-> namespace.job_name_arg,
     steps_per_floor |-> namespace.steps_per_floor]

Exits(code) ==
    [exit |-> <<code>>, job_name_arg |-> PyNone, steps_per_floor |-> PyNone]

\* -h with a value attached: the value is read as further one-letter
\* options, of which the parser has only h; anything else is an error,
\* as is a value attached to --help.
HelpWithExplicitArg(reading) ==
    IF /\ reading.option_string = F_h
       /\ reading.explicit_arg[1] # <<>>
       /\ \A i \in 1..Len(reading.explicit_arg[1]) :
             reading.explicit_arg[1][i] = "h"
    THEN Exits(0)
    ELSE Exits(2)

\* The arguments from place i on, consumed left to right.  An option of
\* add_argument takes the value attached to it or else the next argument,
\* which must be a value; it stores it as a str (type=str) under its dest,
\* replacing what an earlier occurrence stored.  The help action exits
\* with 0.  Arguments nothing consumes are extras, and any extras are an
\* error once the list is through.
RECURSIVE consume(_, _, _, _)
consume(arg_strings, i, namespace, extras) ==
    IF i > Len(arg_strings)
    THEN (IF extras THEN Exits(2) ELSE Parsed(namespace))
    ELSE IF ArgStringsPattern(arg_strings)[i] # "O"
    THEN consume(arg_strings, i + 1, namespace, TRUE)
    ELSE LET reading == parse_optional(arg_strings[i])
         IN  IF reading.action = "none"
             THEN consume(arg_strings, i + 1, namespace, TRUE)
             ELSE IF reading.action = "help"
             THEN (IF reading.explicit_arg = None THEN Exits(0)
                   ELSE HelpWithExplicitArg(reading))
             ELSE IF reading.explicit_arg # None
             THEN consume(arg_strings, i + 1,
                          [namespace EXCEPT
                              ![reading.action] = PyStr(reading.explicit_arg[1])],
                          extras)
             ELSE IF /\ i + 1 <= Len(arg_strings)
                     /\ ArgStringsPattern(arg_strings)[i + 1] = "A"
             THEN consume(arg_strings, i + 2,
                          [namespace EXCEPT
                              ![reading.action] = PyStr(arg_strings[i + 1])],
                          extras)
             ELSE Exits(2)

\* parser.parse_args(args): an ambiguous abbreviation anywhere before '--'
\* is an error before anything is consumed; an option not given stays None.
parse_args(arg_strings) ==
    IF \E i \in 1..Len(arg_strings) :
          ArgStringsPattern(arg_strings)[i] = "error"
    THEN Exits(2)
    ELSE consume(arg_strings, 1,
                 [job_name_arg |-> PyNone, steps_per_floor |-> PyNone], FALSE)

\* set_up_args(args): the pair args.job_name_arg, args.steps_per_floor it
\* returns, or the exit that leaves it.
set_up_args(argv) ==
    LET parsed == parse_args(argv)
    IN  [exit |-> parsed.exit,
         result |-> <<parsed.job_name_arg, parsed.steps_per_floor>>]

\* Command lines of the runs: no option; the short option; an abbreviated
\* long option and an option with its value attached; an option given
\* twice; an option without its value; a stray value before -h.
ArgLists ==
    { <<>>,
      <<F_spf, T_21>>,
      <<F_steps, T_3, F_jbn_etl>>,
      <<F_spf, T_3, F_steps_per_floor, T_21_blank>>,
      <<F_spf>>,
      <<T_21, F_h>> }

\* Rows of the small stored datasets: an employee of local_records, a row
\* with blanks around the names and two rows with NULL cells.
StoredRows ==
    { local_records[3],
      <<Val(10), Val(T_Stu_lead), Val(T_White_trail), Val(3)>>,
      <<NULL, Val(T_Kim), NULL, NULL>>,
      <<Val(11), NULL, NULL, Val(4)>> }

\* Stored input of the driver: nothing at the path, or a dataset.
DriverInputs ==
    {None} \cup
    { <<d>> : d \in {EmployeesDF, ReorderedDF, NoFloorDF} \cup
                    { DataFrame(EmployeeColumns, rows) :
                        rows \in UNION { [1..n -> StoredRows] :
                                            n \in 0..MaxInputRows } } }

\* What the output location may hold before the first run: nothing, or
\* the part files of an earlier, unrelated write.
StaleOutput ==
    << << <<C_id, C_name>>, <<NatToText(77), T_Bird>> >>,
       << <<C_id, C_name>>, <<NatToText(78), T_Suter>> >> >>

PriorOutputs == {<<>>, StaleOutput}

\* Variant: job loops back to extract after load.
Succ_loop(p) ==
    CASE p = "set_up_args" -> "start_spark"
      [] p = "start_spark" -> "main_log_start"
      [] p = "main_log_start" -> "job_log_start"
      [] p = "job_log_start" -> "extract_data"
      [] p = "extract_data" -> "show"
      [] p = "show" -> "transform_data"
      [] p = "transform_data" -> "load_data"
      [] p = "load_data" -> IF Len(stages) < 4 THEN "extract_data"
                            ELSE "job_log_finish"
      [] p = "job_log_finish" -> "main_log_finish"
      [] p = "main_log_finish" -> "spark_stop"
      [] p = "spark_stop" -> "done"
      [] OTHER -> p

\* Variant: main stops the session before logging the finish message.
Succ_stop_first(p) ==
    CASE p = "set_up_args" -> "start_spark"
      [] p = "start_spark" -> "main_log_start"
      [] p = "main_log_start" -> "job_log_start"
      [] p = "job_log_start" -> "extract_data"
      [] p = "extract_data" -> "show"
      [] p = "show" -> "transform_data"
      [] p = "transform_data" -> "load_data"
      [] p = "load_data" -> "job_log_finish"
      [] p = "job_log_finish" -> "spark_stop"
      [] p = "spark_stop" -> "main_log_finish"
      [] p = "main_log_finish" -> "done"
      [] OTHER -> p

\* The statement that follows p in main (52-67) and job (168-178).
Succ(p) ==
    CASE p = "set_up_args" -> "start_spark"
      [] p = "start_spark" -> "main_log_start"
      [] p = "main_log_start" -> "job_log_start"
      [] p = "job_log_start" -> "extract_data"
      [] p = "extract_data" -> "show"
      [] p = "show" -> "transform_data"
      [] p = "transform_data" -> "load_data"
      [] p = "load_data" -> "job_log_finish"
      [] p = "job_log_finish" -> "main_log_finish"
      [] p = "main_log_finish" -> "spark_stop"
      [] p = "spark_stop" -> "done"
      [] OTHER -> p

\* Variant: a failing statement is caught and the run carries on.
OnError_swallow(p) ==
    CASE p = "extract_data" -> "show"
      [] p = "transform_data" -> "load_data"
      [] p = "load_data" -> "job_log_finish"
      [] OTHER -> "failed"

\* Where control goes when the statement at p raises: job and main hold
\* no try/except, so the exception leaves both and the process fails.
OnError(p) == "failed"

LogEntry(by, level, msg) == [by |-> by, level |-> level, msg |-> msg]

Init ==
    /\ args \in ArgLists
    /\ pc = "set_up_args"
    /\ job_name = PyNone
    /\ steps_per_floor = PyNone
    /\ spark = "none"
    /\ log = <<>>
    /\ data = None
    /\ data_transformed = None
    /\ input_file \in DriverInputs
    /\ output_loc \in PriorOutputs
    /\ stages = <<>>
    /\ raised = "none"
    /\ stops = 0
    /\ output_at_start = output_loc
    /\ loads = {}
    /\ runs = 1
    /\ report_file = None
    /\ null_quoted \in BOOLEAN
    /\ exit_status = None

\* main:52  job_name, steps_per_floor = set_up_args(args)
SetUpArgs ==
    /\ pc = "set_up_args"
    /\ set_up_args(args).exit = None
    /\ job_name' = set_up_args(args).result[1]
    /\ steps_per_floor' = set_up_args(args).result[2]
    /\ pc' = Succ(pc)
    /\ UNCHANGED <<args, spark, log, data, data_transformed, input_file,
                   output_loc, stages, raised, stops, output_at_start,
                   loads, runs, report_file, null_quoted,
                   exit_status>>

\* main:52  parse_args raises SystemExit inside set_up_args: it leaves
\* main, which catches nothing, before the session is started.
SetUpArgsExits ==
    /\ pc = "set_up_args"
    /\ set_up_args(args).exit # None
    /\ exit_status' = set_up_args(args).exit
    /\ pc' = "exited"
    /\ UNCHANGED <<args, job_name, steps_per_floor, spark, log, data,
                   data_transformed, input_file, output_loc, stages, raised,
                   stops, output_at_start, loads, runs, report_file,
                   null_quoted>>

\* main:55  spark, log, config_dict = start_spark(app_name=job_name)
StartSpark ==
    /\ pc = "start_spark"
    /\ spark' = "running"
    /\ pc' = Succ(pc)
    /\ UNCHANGED <<args, job_name, steps_per_floor, log, data,
                   data_transformed, input_file, output_loc, stages, raised,
                   stops, output_at_start, loads, runs, report_file, null_quoted,
                   exit_status>>

\* main:59  log.info('etl_job is up-and-running')
MainLogStart ==
    /\ pc = "main_log_start"
    /\ log' = Append(log, LogEntry("main", "info", "etl_job is up-and-running"))
    /\ pc' = Succ(pc)
    /\ UNCHANGED <<args, job_name, steps_per_floor, spark, data,
                   data_transformed, input_file, output_loc, stages, raised,
                   stops, output_at_start, loads, runs, report_file, null_quoted,
                   exit_status>>

\* job:168  log.warn('etl_job is up-and-running')
JobLogStart ==
    /\ pc = "job_log_start"
    /\ log' = Append(log, LogEntry("job", "warn", "etl_job is up-and-running"))
    /\ pc' = Succ(pc)
    /\ UNCHANGED <<args, job_name, steps_per_floor, spark, data,
                   data_transformed, input_file, output_loc, stages, raised,
                   stops, output_at_start, loads, runs, report_file, null_quoted,
                   exit_status>>

\* job:177  log.warn('test_etl_job is finished'), then job:178 return None
JobLogFinish ==
    /\ pc = "job_log_finish"
    /\ log' = Append(log, LogEntry("job", "warn", "test_etl_job is finished"))
    /\ pc' = Succ(pc)
    /\ UNCHANGED <<args, job_name, steps_per_floor, spark, data,
                   data_transformed, input_file, output_loc, stages, raised,
                   stops, output_at_start, loads, runs, report_file, null_quoted,
                   exit_status>>

\* main:65  log.info('test_etl_job is finished')
MainLogFinish ==
    /\ pc = "main_log_finish"
    /\ log' = Append(log, LogEntry("main", "info", "test_etl_job is finished"))
    /\ pc' = Succ(pc)
    /\ UNCHANGED <<args, job_name, steps_per_floor, spark, data,
                   data_transformed, input_file, output_loc, stages, raised,
                   stops, output_at_start, loads, runs, report_file, null_quoted,
                   exit_status>>

\* job:171  data = extract_data(spark): spark.read.parquet(path) returns
\* the stored dataset.
Extract ==
    /\ pc = "extract_data"
    /\ input_file # None
    /\ stages' = Append(stages, "extract")
    /\ data' = input_file
    /\ pc' = Succ(pc)
    /\ UNCHANGED <<args, job_name, steps_per_floor, spark, log,
                   data_transformed, input_file, output_loc, raised, stops,
                   output_at_start, loads, runs, report_file, null_quoted,
                   exit_status>>

\* job:171  nothing readable at the path: read.parquet raises.
ExtractRaises ==
    /\ pc = "extract_data"
    /\ input_file = None
    /\ stages' = Append(stages, "extract")
    /\ raised' = "extract"
    /\ pc' = OnError(pc)
    /\ UNCHANGED <<args, job_name, steps_per_floor, spark, log, data,
                   data_transformed, input_file, output_loc, stops,
                   output_at_start, loads, runs, report_file, null_quoted,
                   exit_status>>

\* job:172  data.show(): prints rows, changes nothing.
Show ==
    /\ pc = "show"
    /\ pc' = Succ(pc)
    /\ UNCHANGED <<args, job_name, steps_per_floor, spark, log, data,
                   data_transformed, input_file, output_loc, stages, raised,
                   stops, output_at_start, loads, runs, report_file, null_quoted,
                   exit_status>>

\* job:173  data_transformed = transform_data(data, steps_per_floor)
Transform ==
    /\ pc = "transform_data"
    /\ Resolves(data[1])
    /\ stages' = Append(stages, "transform")
    /\ data_transformed' = <<transform_data(data[1], steps_per_floor)>>
    /\ data' = <<df_after_select(data[1], steps_per_floor)>>
    /\ pc' = Succ(pc)
    /\ UNCHANGED <<args, job_name, steps_per_floor, spark, log,
                   input_file, output_loc, raised, stops, output_at_start,
                   loads, runs, report_file, null_quoted,
                   exit_status>>

\* job:173  a column of the select is missing: AnalysisException.
TransformRaises ==
    /\ pc = "transform_data"
    /\ ~Resolves(data[1])
    /\ stages' = Append(stages, "transform")
    /\ raised' = "transform"
    /\ pc' = OnError(pc)
    /\ UNCHANGED <<args, job_name, steps_per_floor, spark, log, data,
                   data_transformed, input_file, output_loc, stops,
                   output_at_start, loads, runs, report_file, null_quoted,
                   exit_status>>

\* job:174  load_data(data_transformed)
Load ==
    /\ pc = "load_data"
    /\ stages' = Append(stages, "load")
    /\ output_loc' = load_data(output_loc, data_transformed[1])
    /\ loads' = loads \cup {[input |-> data[1], config |-> steps_per_floor,
                             df |-> data_transformed[1],
                             after |-> output_loc']}
    /\ pc' = Succ(pc)
    /\ UNCHANGED <<args, job_name, steps_per_floor, spark, log, data,
                   data_transformed, input_file, raised, stops,
                   output_at_start, runs, report_file, null_quoted,
                   exit_status>>

\* job:174  the write fails (the location cannot be written): the job is
\* aborted before the old files are deleted, or after that and before the
\* new part file is committed.
LoadRaises ==
    /\ pc = "load_data"
    /\ stages' = Append(stages, "load")
    /\ output_loc' \in {output_loc, <<>>}
    /\ raised' = "load"
    /\ pc' = OnError(pc)
    /\ UNCHANGED <<args, job_name, steps_per_floor, spark, log, data,
                   data_transformed, input_file, stops, output_at_start,
                   loads, runs, report_file, null_quoted,
                   exit_status>>

\* main:66  spark.stop(), then main:67 return None
SparkStop ==
    /\ pc = "spark_stop"
    /\ spark' = "stopped"
    /\ stops' = stops + 1
    /\ pc' = Succ(pc)
    /\ UNCHANGED <<args, job_name, steps_per_floor, log, data,
                   data_transformed, input_file, output_loc, stages, raised,
                   output_at_start, loads, runs, report_file, null_quoted,
                   exit_status>>

\* config['steps_per_floor'] of the configuration create_test_data is
\* called with.
TestDataConfigSteps == {PyInt(21)}

\* create_test_data(spark, config) (116-153), called between two runs of
\* the job: the employees dataset is replaced by local_records
\* and the employees_report dataset by their transform with
\* config['steps_per_floor'].
CreateTestData ==
    /\ pc \in {"done", "failed", "exited"}
    /\ runs < MaxRuns
    /\ \E config_steps \in TestDataConfigSteps :
          LET df == DataFrame(EmployeeColumns, local_records)
              df_tf == transform_data(df, config_steps)
          IN  /\ input_file' = <<df>>
              /\ report_file' = <<df_tf>>
    /\ UNCHANGED <<args, pc, job_name, steps_per_floor, spark, log, data,
                   data_transformed, output_loc, stages, raised, stops,
                   output_at_start, loads, runs, null_quoted,
                   exit_status>>

\* The job is submitted again (a new process, entry point 205-206): the
\* locals, the session and the log start afresh, the stored files stay.
Rerun ==
    /\ pc \in {"done", "failed", "exited"}
    /\ runs < MaxRuns
    /\ runs' = runs + 1
    /\ args' \in ArgLists
    /\ pc' = "set_up_args"
    /\ job_name' = PyNone
    /\ steps_per_floor' = PyNone
    /\ spark' = "none"
    /\ log' = <<>>
    /\ data' = None
    /\ data_transformed' = None
    /\ stages' = <<>>
    /\ raised' = "none"
    /\ stops' = 0
    /\ output_at_start' = output_loc
    /\ exit_status' = None
    /\ UNCHANGED <<input_file, output_loc, loads, report_file,
                   null_quoted>>

Next ==
    \/ SetUpArgs \/ SetUpArgsExits \/ StartSpark \/ MainLogStart \/ JobLogStart
    \/ Extract \/ ExtractRaises \/ Show
    \/ Transform \/ TransformRaises
    \/ Load \/ LoadRaises
    \/ JobLogFinish \/ MainLogFinish \/ SparkStop
    \/ CreateTestData
    \/ Rerun

Spec == Init /\ [][Next]_vars


(***************************************************************************)
(* Properties.                                                             *)
(***************************************************************************)
Pipeline == <<"extract", "transform", "load">>

IsPrefix(a, b) == Len(a) <= Len(b) /\ a = SubSeq(b, 1, Len(a))

Logged(by, msg) == \E i \in 1..Len(log) : log[i].by = by /\ log[i].msg = msg

\* Text of a cell read as plain text, NULL read as the empty text.
Text(cell) == IF IsNull(cell) THEN <<>> ELSE cell[1]

IsNumeral(s) == s # <<>> /\ \A i \in 1..Len(s) : IsDigit(s[i])

\* C1: transform_data returns as many rows as it was given, in the same
\* order, and output row i is what the transform makes of input row i
\* alone (the result of transforming the one-row dataset holding row i).
C1_RowWise ==
    pc = "returned" =>
        LET df == data[1]
            out == data_transformed[1]
        IN  /\ Len(out.rows) = Len(df.rows)
            /\ \A i \in 1..Len(df.rows) :
                  /\ out.rows[i] =
                        transform_data(DataFrame(df.columns, <<df.rows[i]>>),
                                       steps_per_floor).rows[1]
                  /\ out.rows[i][1] = col(df, df.rows[i], C_id)

\* C1 witness: a call on two different rows has returned two different
\* output rows.
C1_Witness ==
    /\ pc = "returned"
    /\ Len(data[1].rows) >= 2
    /\ data[1].rows[1] # data[1].rows[2]
    /\ data_transformed[1].rows[1] # data_transformed[1].rows[2]

\* C2 as stated: in every output row, name is first_name, one space,
\* second_name; a NULL part is read as the empty text or as making the
\* whole name NULL, whichever fits.
C2_Original ==
    pc = "returned" =>
        LET df == data[1]
            out == data_transformed[1]
        IN  \A i \in 1..Len(df.rows) :
              LET f == col(df, df.rows[i], C_first_name)
                  s == col(df, df.rows[i], C_second_name)
                  name == out.rows[i][2]
              IN  \/ name = Val(Text(f) \o <<" ">> \o Text(s))
                  \/ (IsNull(f) \/ IsNull(s)) /\ IsNull(name)

\* C2 amended: when first_name and second_name are both present, name is
\* first_name, exactly one space, second_name, neither part altered; when
\* one part is NULL, name is the other part alone, without a space; when
\* both are NULL, name is the empty text.  name is never NULL.
C2_NameJoin ==
    pc = "returned" =>
        LET df == data[1]
            out == data_transformed[1]
        IN  \A i \in 1..Len(df.rows) :
              LET f == col(df, df.rows[i], C_first_name)
                  s == col(df, df.rows[i], C_second_name)
                  name == out.rows[i][2]
              IN  /\ ~IsNull(name)
                  /\ ~IsNull(f) /\ ~IsNull(s) =>
                        /\ Len(name[1]) = Len(f[1]) + 1 + Len(s[1])
                        /\ SubSeq(name[1], 1, Len(f[1])) = f[1]
                        /\ name[1][Len(f[1]) + 1] = " "
                        /\ SubSeq(name[1], Len(f[1]) + 2, Len(name[1])) = s[1]
                  /\ ~IsNull(f) /\ IsNull(s) => name[1] = f[1]
                  /\ IsNull(f) /\ ~IsNull(s) => name[1] = s[1]
                  /\ IsNull(f) /\ IsNull(s) => name[1] = <<>>

\* C2 witness: a call has returned for a dataset holding a row with both
\* parts present, one of them with a blank at its edge, and a row with a
\* NULL first_name.
C2_Witness ==
    /\ pc = "returned"
    /\ \E i \in 1..Len(data[1].rows) :
          /\ data[1].rows[i][2] = Val(T_Stu_lead)
          /\ data_transformed[1].rows[i][2] = Val(T_Stu_lead \o <<" ">> \o T_White_trail)
    /\ \E i \in 1..Len(data[1].rows) :
          /\ IsNull(data[1].rows[i][2])
          /\ data_transformed[1].rows[i][2] = Val(T_Lai)

\* C3 as stated: when the driver hands transform_data the steps_per_floor
\* given on the command line as a decimal numeral, steps_to_desk is an
\* integer column and every row with a floor holds floor times that number.
C3_IntegerProduct ==
    (pc = "load_data" /\ steps_per_floor.kind = "str"
                      /\ IsNumeral(steps_per_floor.str)) =>
        LET df == data[1]
            out == data_transformed[1]
        IN  /\ out.columns[3].type \in {"int", "long"}
            /\ \A i \in 1..Len(df.rows) :
                  LET floor == col(df, df.rows[i], C_floor)
                  IN  ~IsNull(floor) =>
                        out.rows[i][3] =
                            Val(floor[1] * ParseNat(steps_per_floor.str))

\* C4: the output has exactly the columns id, name, steps_to_desk, in that
\* order, and in every row the id cell is the id cell of the same input
\* row (NULL included).
C4_IdAndFields ==
    pc = "returned" =>
        LET df == data[1]
            out == data_transformed[1]
        IN  /\ ColumnNames(out) = <<C_id, C_name, C_steps_to_desk>>
            /\ \A i \in 1..Len(df.rows) :
                  /\ Len(out.rows[i]) = 3
                  /\ out.rows[i][1] = col(df, df.rows[i], C_id)

\* C4 witness: a call has returned for the dataset whose columns are in
\* another order and include a column the transform does not read.
C4_Witness ==
    /\ pc = "returned"
    /\ data[1] = ReorderedDF
    /\ data_transformed[1].rows[1][1] = Val(4)

\* C5: any two completed transform+load runs on the same input dataset
\* with the same steps_per_floor leave the same files with the same lines
\* in the same order at the output location, whatever it held before each
\* of them; right after a load the location holds what that load wrote.
C5_Idempotent ==
    /\ \A a, b \in loads :
          (a.input = b.input /\ a.config = b.config) => a.after = b.after
    /\ pc = "job_log_finish" =>
          \E l \in loads : /\ l.input = data[1]
                           /\ l.config = steps_per_floor
                           /\ l.after = output_loc

\* C5 witness: a later run has just loaded, and the location holds what
\* it already held when that run started: the files an earlier run wrote
\* from the same input with the same steps_per_floor.
C5_Witness ==
    /\ runs >= 2
    /\ pc = "job_log_finish"
    /\ output_at_start # <<>>
    /\ output_at_start # StaleOutput
    /\ output_loc = output_at_start
    /\ Len(data[1].rows) >= 1

\* C6: in every run the stages started so far are extract, transform,
\* load in that order, each at most once; transform starts only with the
\* extracted dataset at hand, load only with the transformed one; a run
\* that finishes has run all three; a run that the command line ends in
\* set_up_args never enters job and starts none.
C6_StageOrder ==
    /\ IsPrefix(stages, Pipeline)
    /\ pc \in {"set_up_args", "exited"} => stages = <<>>
    /\ pc = "transform_data" => (data # None /\ stages = <<"extract">>)
    /\ pc = "load_data" =>
          (data_transformed # None /\ stages = <<"extract", "transform">>)
    /\ pc \in {"job_log_finish", "main_log_finish", "spark_stop", "done"} =>
          stages = Pipeline

\* C6 witness: a run has finished after all three stages.
C6_Witness == pc = "done" /\ stages = Pipeline /\ output_loc # output_at_start

\* C7 as stated: after a completed load the location holds one file: the
\* header line, then one line per row of the dataset holding exactly that
\* row's values: the name as it is, a number as its numeral.  (How an
\* empty name or a NULL is spelled, as nothing or as "", is left open.)
C7_Original ==
    \A l \in loads :
        /\ Len(l.after) = 1
        /\ Len(l.after[1]) = 1 + Len(l.df.rows)
        /\ l.after[1][1] = <<C_id, C_name, C_steps_to_desk>>
        /\ \A i \in 1..Len(l.df.rows) :
              LET line == l.after[1][i + 1]
                  row == l.df.rows[i]
              IN  /\ Len(line) = 3
                  /\ line[1] \in
                        IF IsNull(row[1]) THEN {<<>>, EmptyValue}
                        ELSE {NatToText(row[1][1])}
                  /\ line[2] \in
                        IF Text(row[2]) = <<>> THEN {<<>>, EmptyValue}
                        ELSE {Text(row[2])}
                  /\ line[3] \in
                        IF IsNull(row[3]) THEN {<<>>, EmptyValue}
                        ELSE IF l.df.columns[3].type = "double"
                        THEN {NatToText(row[3][1]) \o <<".", "0">>}
                        ELSE {NatToText(row[3][1])}

\* C7 amended: after a completed load the location holds one part file
\* and nothing of what it held before: the header line id, name,
\* steps_to_desk, then one line per row of the dataset, in dataset order.
\* The name field is the row's name without its leading and trailing
\* blanks, and the two characters "" when nothing is left of it; the
\* other fields are the numerals of the row's numbers (an integral double
\* with ".0"); a NULL is written as the empty field or, by the older
\* releases, as "".
C7_OverwriteWithHeader ==
    /\ \A l \in loads :
        /\ Len(l.after) = 1
        /\ Len(l.after[1]) = 1 + Len(l.df.rows)
        /\ l.after[1][1] = <<C_id, C_name, C_steps_to_desk>>
        /\ \A i \in 1..Len(l.df.rows) :
              LET line == l.after[1][i + 1]
                  row == l.df.rows[i]
              IN  /\ Len(line) = 3
                  /\ line[1] \in
                        IF IsNull(row[1]) THEN {<<>>, EmptyValue}
                        ELSE {NatToText(row[1][1])}
                  /\ line[2] =
                        IF Trim(row[2][1]) = <<>> THEN EmptyValue
                        ELSE Trim(row[2][1])
                  /\ line[3] \in
                        IF IsNull(row[3]) THEN {<<>>, EmptyValue}
                        ELSE IF l.df.columns[3].type = "double"
                        THEN {NatToText(row[3][1]) \o <<".", "0">>}
                        ELSE {NatToText(row[3][1])}
    /\ pc = "job_log_finish" =>
          \E l \in loads : l.df = data_transformed[1] /\ l.after = output_loc

\* C7 witness: a load has completed over stale files, writing a dataset
\* with a row whose name has blanks at its edges.
C7_Witness ==
    /\ pc = "job_log_finish"
    /\ output_at_start = StaleOutput
    /\ \E i \in 1..Len(data_transformed[1].rows) :
          /\ data_transformed[1].rows[i][2] # Val(Trim(data_transformed[1].rows[i][2][1]))
          /\ output_loc[1][i + 1][2] = Trim(data_transformed[1].rows[i][2][1])

\* C8: once a stage has raised, the run is in the failed state; the stage
\* that raised is the last one started and was started once; no later
\* stage has produced or written anything; nothing reports the run as
\* finished.
C8_LetItFail ==
    /\ raised # "none" <=> pc = "failed"
    /\ raised # "none" =>
          /\ stages # <<>>
          /\ stages[Len(stages)] = raised
          /\ IsPrefix(stages, Pipeline)
          /\ ~Logged("job", "test_etl_job is finished")
          /\ ~Logged("main", "test_etl_job is finished")
    /\ raised = "extract" =>
          (data = None /\ data_transformed = None /\ output_loc = output_at_start)
    /\ raised = "transform" =>
          (data_transformed = None /\ output_loc = output_at_start)

\* C8 witness: a run has failed in transform with stale files in place.
C8_Witness ==
    /\ pc = "failed"
    /\ raised = "transform"
    /\ output_loc = StaleOutput

C10_StopAfterFinish ==
    /\ stops <= 1
    /\ spark = "stopped" <=> stops = 1
    /\ spark = "stopped" =>
          /\ pc = "done"
          /\ stages = Pipeline
          /\ Len(log) = 4
          /\ log[3] = LogEntry("job", "warn", "test_etl_job is finished")
          /\ log[4] = LogEntry("main", "info", "test_etl_job is finished")
    /\ pc = "done" => spark = "stopped"
    /\ raised # "none" =>
          /\ ~Logged("main", "test_etl_job is finished")
          /\ spark = "running"
          /\ stops = 0
    /\ exit_status # None <=> pc = "exited"
    /\ pc = "exited" => (spark = "none" /\ stops = 0 /\ log = <<>>)

\* C10 witness: one run has finished with the session stopped, and a later
\* run has failed in load with its session still running.
C10_Witness ==
    /\ runs >= 2
    /\ raised = "load"
    /\ spark = "running"
    /\ loads # {}

=============================================================================
